---- MODULE Spec2Model ----
(***************************************************************************)
(* Model of src/demo.py: the retrieval-and-dispatch pipeline.              *)
(*                                                                         *)
(* Strings are sequences of one-character strings.  None is the empty     *)
(* tuple and a present value x is <<x>> (see None / Some).                 *)
(*                                                                         *)
(* Collaborators that demo.py calls but does not define are modelled by   *)
(* what they do at the call site:                                          *)
(*   - RecursiveCharacterTextSplitter (langchain_text_splitters): the     *)
(*     separator-recursive split and merge, default separators            *)
(*     "\n\n", "\n", " ", "", keep_separator=True, strip_whitespace=True;  *)
(*   - chromadb (PersistentClient, 0.4 and later): count, add (records    *)
(*     whose id is already present are ignored, an empty id list raises   *)
(*     ValueError), query (n_results is lowered to the number of entries);*)
(*   - requests.post: returns a response or raises.                       *)
(***************************************************************************)
EXTENDS Integers, Sequences, FiniteSets, TLC

VARIABLES
    pc,                \* position of the running program (per specification)
    \* ---- Chunker under test
    s_text, s_params, s_chunks,
    \* ---- simple_planner under test
    p_query, p_action,
    \* ---- tool prompt construction under test
    d_action, d_context, d_query, d_query2, d_prompt, d_prompt2,
    \* ---- persistent vector store (./chroma_db, "rag_collection")
    exists, collection,
    \* ---- last populate / query call on the collection
    chunks, first_chunks, calls, n_results, dist, results, retrieved_chunks,
    \* ---- concurrent populators
    r_pc, r_chunks, r_saw, r_adds, serialized,
    \* ---- main()
    pdf, text, query, context, action, tool, prompt, response, answer,
    output, trace, db0, gen_calls

splitVars == <<s_text, s_params, s_chunks>>
planVars  == <<p_query, p_action>>
dispVars  == <<d_action, d_context, d_query, d_query2, d_prompt, d_prompt2>>
dbVars    == <<exists, collection>>
callVars  == <<chunks, first_chunks, calls, n_results, dist, results, retrieved_chunks>>
raceVars  == <<r_pc, r_chunks, r_saw, r_adds, serialized>>
mainVars  == <<pdf, text, query, context, action, tool, prompt, response, answer,
               output, trace, db0, gen_calls>>
vars == <<pc, splitVars, planVars, dispVars, dbVars, callVars, raceVars, mainVars>>

-----------------------------------------------------------------------------
(* Bounds of the model. *)

MaxLen == 4          \* longest enumerated document text (characters)
MaxChunkSize == 4    \* largest enumerated chunk_size of the Chunker under test
MaxFrags == 3        \* fragments concatenated into a planner query
MaxChunks == 2       \* longest chunk list passed to a populate call
MaxCalls == 3        \* populate/query calls in one history of the index
MaxK == 3            \* largest n_results asked of a query
MaxPages == 2        \* pages of the PDF
MaxCtx == 2          \* longest context and query of a dispatch under test

(* Program constants. *)
chunk_size == 1000
chunk_overlap == 200
main_n_results == 2

-----------------------------------------------------------------------------
(* Python values. *)

None == <<>>
Some(x) == <<x>>

Min(a, b) == IF a <= b THEN a ELSE b

RECURSIVE Concat(_)
Concat(ss) == IF ss = <<>> THEN <<>> ELSE Head(ss) \o Concat(Tail(ss))

RECURSIVE SeqsUpTo(_, _)
SeqsUpTo(S, n) ==
    IF n = 0 THEN {<<>>}
    ELSE LET shorter == SeqsUpTo(S, n - 1) IN
         shorter \cup {Append(s, x) : s \in {t \in shorter : Len(t) = n - 1}, x \in S}

(* str.strip(): whitespace of the modelled alphabet. *)
IsSpace(c) == c \in {" ", "\n"}

RECURSIVE lstrip(_)
lstrip(s) == IF s # <<>> /\ IsSpace(Head(s)) THEN lstrip(Tail(s)) ELSE s

RECURSIVE rstrip(_)
rstrip(s) ==
    IF s # <<>> /\ IsSpace(s[Len(s)]) THEN rstrip(SubSeq(s, 1, Len(s) - 1)) ELSE s

strip(s) == rstrip(lstrip(s))

(* sub occurs in s at position i *)
MatchAt(s, sub, i) ==
    i + Len(sub) - 1 <= Len(s) /\ SubSeq(s, i, i + Len(sub) - 1) = sub

(* Python's "sub in s" *)
Contains(s, sub) == \E i \in 1..(Len(s) + 1) : MatchAt(s, sub, i)

FindFirst(s, sub) ==
    IF Contains(s, sub)
    THEN CHOOSE i \in 1..(Len(s) + 1) :
            MatchAt(s, sub, i) /\ \A j \in 1..(i - 1) : ~MatchAt(s, sub, j)
    ELSE 0

-----------------------------------------------------------------------------
(* 2. Split text into chunks: RecursiveCharacterTextSplitter.              *)

(* re.split(sep, text) without the captured separators *)
RECURSIVE re_split(_, _)
re_split(t, sep) ==
    LET i == FindFirst(t, sep) IN
    IF i = 0 THEN <<t>>
    ELSE <<SubSeq(t, 1, i - 1)>> \o re_split(SubSeq(t, i + Len(sep), Len(t)), sep)

(* _split_text_with_regex, keep_separator=True: every piece after the first
   keeps the separator in front of it; empty pieces are dropped. *)
split_text_with_regex(t, sep) ==
    IF sep # <<>>
    THEN LET p == re_split(t, sep) IN
         SelectSeq([j \in 1..Len(p) |-> IF j = 1 THEN p[j] ELSE sep \o p[j]],
                   LAMBDA x : x # <<>>)
    ELSE [j \in 1..Len(t) |-> <<t[j]>>]

(* _join_docs with separator "" and strip_whitespace=True: zero or one doc *)
join_docs(docs) == LET t == strip(Concat(docs)) IN IF t = <<>> THEN <<>> ELSE <<t>>

(* Faulty variant: one character too few is kept as overlap. *)
RECURSIVE pop_while_short(_, _, _, _, _)
pop_while_short(cur, total, len, cs, ov) ==
    IF total > 0 /\ (total >= ov \/ total + len > cs)
    THEN pop_while_short(Tail(cur), total - Len(Head(cur)), len, cs, ov)
    ELSE <<cur, total>>

(* the "keep on popping" loop of _merge_splits *)
RECURSIVE pop_while(_, _, _, _, _)
pop_while(cur, total, len, cs, ov) ==
    IF total > ov \/ (total + len > cs /\ total > 0)
    THEN pop_while(Tail(cur), total - Len(Head(cur)), len, cs, ov)
    ELSE <<cur, total>>

(* the loop of _merge_splits (separator "", so separator_len = 0) *)
RECURSIVE merge_loop(_, _, _, _, _, _)
merge_loop(splits, docs, cur, total, cs, ov) ==
    IF splits = <<>> THEN docs \o join_docs(cur)
    ELSE LET d == Head(splits)
             len == Len(d)
             over == total + len > cs /\ Len(cur) > 0
             docs1 == IF over THEN docs \o join_docs(cur) ELSE docs
             kept == IF over THEN pop_while(cur, total, len, cs, ov) ELSE <<cur, total>>
         IN merge_loop(Tail(splits), docs1, Append(kept[1], d), kept[2] + len, cs, ov)

merge_splits(splits, cs, ov) == merge_loop(splits, <<>>, <<>>, 0, cs, ov)

(* the default separators "\n\n", "\n", " ", "" *)
Separators == << <<"\n", "\n">>, <<"\n">>, <<" ">>, <<>> >>

(* index of the first separator that is "" or occurs in the text *)
PickSep(t, seps) ==
    CHOOSE i \in 1..Len(seps) :
        /\ (seps[i] = <<>> \/ Contains(t, seps[i]))
        /\ \A j \in 1..(i - 1) : seps[j] # <<>> /\ ~Contains(t, seps[j])

Flush(good, cs, ov) == IF good # <<>> THEN merge_splits(good, cs, ov) ELSE <<>>

RECURSIVE split_text_rec(_, _, _, _)
RECURSIVE process_splits(_, _, _, _, _)

(* the "for s in splits" loop of _split_text *)
process_splits(splits, good, newseps, cs, ov) ==
    IF splits = <<>> THEN Flush(good, cs, ov)
    ELSE LET s == Head(splits) IN
         IF Len(s) < cs
         THEN process_splits(Tail(splits), Append(good, s), newseps, cs, ov)
         ELSE Flush(good, cs, ov)
              \o (IF newseps = <<>> THEN <<s>> ELSE split_text_rec(s, newseps, cs, ov))
              \o process_splits(Tail(splits), <<>>, newseps, cs, ov)

(* _split_text *)
split_text_rec(t, seps, cs, ov) ==
    LET i == PickSep(t, seps)
        sep == seps[i]
        newseps == IF sep = <<>> THEN <<>> ELSE SubSeq(seps, i + 1, Len(seps))
    IN process_splits(split_text_with_regex(t, sep), <<>>, newseps, cs, ov)

(* Faulty variant: the overlap is not handed to the splitter. *)
split_text_no_overlap(t, cs, ov) == split_text_rec(t, Separators, cs, 0)

(* RecursiveCharacterTextSplitter(chunk_size=cs, chunk_overlap=ov).split_text *)
split_text(t, cs, ov) == split_text_rec(t, Separators, cs, ov)

(* textsplitter(text) of demo.py *)
textsplitter(t) == split_text(t, chunk_size, chunk_overlap)

-----------------------------------------------------------------------------
(* Values the variables of a specification that does not use them hold. *)

IdleSplit == s_text = <<>> /\ s_params = <<1, 0>> /\ s_chunks = <<>>
IdlePlan  == p_query = <<>> /\ p_action = "none"
IdleDisp  == /\ d_action = "none" /\ d_context = <<>> /\ d_query = <<>>
             /\ d_query2 = <<>> /\ d_prompt = <<>> /\ d_prompt2 = <<>>
IdleDb    == exists = FALSE /\ collection = <<>>
IdleCall  == /\ chunks = <<>> /\ first_chunks = None /\ calls = 0 /\ n_results = 0
             /\ dist = <<>> /\ results = None /\ retrieved_chunks = <<>>
IdleRace  == /\ r_pc = <<>> /\ r_chunks = <<>> /\ r_saw = <<>> /\ r_adds = 0
             /\ serialized = FALSE
IdleMain  == /\ pdf = None /\ text = None /\ query = <<>> /\ context = <<>>
             /\ action = "none" /\ tool = "none" /\ prompt = <<>>
             /\ response = [raised |-> FALSE, status_code |-> 0, text |-> <<>>]
             /\ answer = None /\ output = <<>> /\ trace = <<>> /\ db0 = <<>>
             /\ gen_calls = 0

-----------------------------------------------------------------------------
(* Specification SpecSplit: the Chunker applied to bounded inputs.         *)

Alphabet == {"A", "B", " ", "\n"}
ExampleText == <<"A", "B", "C", "D", "E", "F", "G", "H", "I", "J">>
WordsText == <<"A", "B", " ", "C", "D", " ", "E", "F">>
SplitTexts == SeqsUpTo(Alphabet, MaxLen) \cup {ExampleText, WordsText}

(* chunk_size > 0 and 0 <= overlap < chunk_size, and the pair demo.py uses *)
SplitParams ==
    {p \in (1..MaxChunkSize) \X (0..MaxChunkSize) : p[2] < p[1]}
        \cup {<<chunk_size, chunk_overlap>>}

InitSplit ==
    /\ pc = "ready"
    /\ s_text \in SplitTexts
    /\ s_params \in SplitParams
    /\ s_chunks = <<>>
    /\ IdlePlan /\ IdleDisp /\ IdleDb /\ IdleCall /\ IdleRace /\ IdleMain

DoSplit ==
    /\ pc = "ready"
    /\ s_chunks' = split_text(s_text, s_params[1], s_params[2])
    /\ pc' = "done"
    /\ UNCHANGED <<s_text, s_params, planVars, dispVars, dbVars, callVars, raceVars, mainVars>>

NextSplit == DoSplit

SpecSplit == InitSplit /\ [][NextSplit]_vars

(* The fixed-step sliding window the Chunker is specified as. *)
RECURSIVE Windows(_, _, _, _)
Windows(t, start, cs, step) ==
    LET last == Min(start + cs - 1, Len(t)) IN
    IF start + cs - 1 >= Len(t) THEN <<SubSeq(t, start, last)>>
    ELSE <<SubSeq(t, start, last)>> \o Windows(t, start + step, cs, step)

SlidingWindow(t, cs, ov) == IF t = <<>> THEN <<>> ELSE Windows(t, 1, cs, cs - ov)

NoWhitespace(t) == \A i \in 1..Len(t) : ~IsSpace(t[i])

(* the first chunk, then every following chunk without its leading overlap *)
RECURSIVE DropOverlaps(_, _)
DropOverlaps(cs, ov) ==
    IF cs = <<>> THEN <<>>
    ELSE SubSeq(Head(cs), ov + 1, Len(Head(cs))) \o DropOverlaps(Tail(cs), ov)

Reassemble(cs, ov) == IF cs = <<>> THEN <<>> ELSE Head(cs) \o DropOverlaps(Tail(cs), ov)

(* C6 as stated: for every text the chunks are the fixed-step sliding
   window over the text. *)
C6_SlidingWindowAlways ==
    pc = "done" => s_chunks = SlidingWindow(s_text, s_params[1], s_params[2])

(* C6, amended: every chunk has at most chunk_size characters, empty text
   gives no chunk, and for a text without whitespace the chunks are the
   fixed-step sliding window: chunk i starts at offset i*(chunk_size-overlap),
   only the last may be shorter. *)
C6_SlidingWindowNoWhitespace ==
    pc = "done" =>
        /\ \A i \in 1..Len(s_chunks) : Len(s_chunks[i]) <= s_params[1]
        /\ (s_text = <<>> => s_chunks = <<>>)
        /\ (NoWhitespace(s_text) =>
                s_chunks = SlidingWindow(s_text, s_params[1], s_params[2]))

C6_Witness ==
    /\ pc = "done"
    /\ s_text = ExampleText
    /\ s_params = <<4, 1>>
    /\ s_chunks = << <<"A", "B", "C", "D">>, <<"D", "E", "F", "G">>, <<"G", "H", "I", "J">> >>

(* C7 as stated: for every text, the first chunk followed by the other
   chunks without their leading overlap characters is the text. *)
C7_RoundTripAlways ==
    pc = "done" => Reassemble(s_chunks, s_params[2]) = s_text

(* C7, amended: the round trip reconstructs every text that has no
   whitespace character. *)
C7_RoundTripNoWhitespace ==
    (pc = "done" /\ NoWhitespace(s_text)) => Reassemble(s_chunks, s_params[2]) = s_text

C7_Witness ==
    /\ pc = "done"
    /\ NoWhitespace(s_text)
    /\ Len(s_chunks) >= 3
    /\ s_params[2] >= 1
    /\ Len(s_chunks[Len(s_chunks)]) < s_params[1]
    /\ Reassemble(s_chunks, s_params[2]) = s_text

-----------------------------------------------------------------------------
(* simple_planner: the intent of a query.                                  *)

(* str.lower() on the characters of the modelled queries *)
lower_char(c) ==
    CASE c = "S" -> "s" [] c = "U" -> "u" [] c = "M" -> "m" [] c = "A" -> "a"
      [] c = "R" -> "r" [] c = "I" -> "i" [] c = "Z" -> "z" [] c = "E" -> "e"
      [] c = "H" -> "h" [] c = "C" -> "c" [] c = "T" -> "t" [] c = "O" -> "o"
      [] c = "N" -> "n" [] OTHER -> c

lower(s) == [i \in 1..Len(s) |-> lower_char(s[i])]

kw_summarize == <<"s", "u", "m", "m", "a", "r", "i", "z", "e">>
kw_hr == <<"h", "r">>
kw_action == <<"a", "c", "t", "i", "o", "n">>

(* Faulty variant: the two rules are tried in the other order. *)
simple_planner_hr_first(q) ==
    LET query_lower == lower(q) IN
    IF Contains(query_lower, kw_hr) /\ Contains(query_lower, kw_action) THEN "extract_hr"
    ELSE IF Contains(query_lower, kw_summarize) THEN "summarize"
    ELSE "general"

simple_planner(q) ==
    LET query_lower == lower(q) IN
    IF Contains(query_lower, kw_summarize) THEN "summarize"
    ELSE IF Contains(query_lower, kw_hr) /\ Contains(query_lower, kw_action) THEN "extract_hr"
    ELSE "general"

(* Specification SpecPlan: simple_planner applied to bounded queries, each a
   concatenation of up to MaxFrags fragments. *)
Fragments == {
    <<"s", "u", "m", "m", "a", "r", "i", "z", "e">>,
    <<"S", "U", "M", "M", "A", "R", "I", "Z", "E">>,
    <<"S", "u", "m", "m">>,
    <<"a", "r", "i", "z", "e">>,
    <<"h", "r">>,
    <<"H", "R">>,
    <<"a", "c", "t", "i", "o", "n">>,
    <<"A", "c", "t", "i", "o", "n">>,
    <<"a", "c", "t">>,
    <<"I", "O", "N">>,
    <<"h">>,
    <<"R">>,
    <<" ">>,
    <<"x">> }

PlanQueries == {Concat(fs) : fs \in SeqsUpTo(Fragments, MaxFrags)}

InitPlan ==
    /\ pc = "ready"
    /\ p_query \in PlanQueries
    /\ p_action = "none"
    /\ IdleSplit /\ IdleDisp /\ IdleDb /\ IdleCall /\ IdleRace /\ IdleMain

DoPlan ==
    /\ pc = "ready"
    /\ p_action' = simple_planner(p_query)
    /\ pc' = "done"
    /\ UNCHANGED <<p_query, splitVars, dispVars, dbVars, callVars, raceVars, mainVars>>

NextPlan == DoPlan

SpecPlan == InitPlan /\ [][NextPlan]_vars

(* kw occurs in q when letter case is ignored on both sides *)
ContainsIgnoringCase(q, kw) ==
    \E i \in 1..(Len(q) - Len(kw) + 1) :
        \A j \in 1..Len(kw) : lower_char(q[i + j - 1]) = lower_char(kw[j])

Intents == {"summarize", "extract_hr", "general"}

(* C3: the intent is Summarize whenever the query contains "summarize" in
   any letter case, otherwise ExtractHRActions when it contains both "hr"
   and "action", otherwise GeneralQA; it is always one of the three. *)
C3_PlannerPriority ==
    pc = "done" =>
        /\ p_action \in Intents
        /\ (p_action = "summarize") <=> ContainsIgnoringCase(p_query, kw_summarize)
        /\ (p_action = "extract_hr") <=>
               /\ ~ContainsIgnoringCase(p_query, kw_summarize)
               /\ ContainsIgnoringCase(p_query, kw_hr)
               /\ ContainsIgnoringCase(p_query, kw_action)

C3_Witness ==
    /\ pc = "done"
    /\ p_action = "summarize"
    /\ p_query # lower(p_query)
    /\ ContainsIgnoringCase(p_query, kw_hr)
    /\ ContainsIgnoringCase(p_query, kw_action)

-----------------------------------------------------------------------------
(* The tools: prompt construction.  A prompt is the sequence of its parts in
   order; each literal piece of an f-string template is one element, the
   inserted text and question are inserted character by character. *)

tool_summarize_prompt(t) ==
    <<"Summarize the following text:\n\n">> \o t \o <<"\n\nSummary:">>

tool_extract_hr_tasks_prompt(t) ==
    <<"From the following text, extract action items relevant to the HR department:\n\n">>
        \o t \o <<"\n\nItems:">>

tool_answer_question_prompt(t, question) ==
    <<"\nUsing the following context, answer the question. If the answer is not in the context,\nsay you don't know.\n\nContext:\n">>
        \o t \o <<"\n\nQuestion: ">> \o question \o <<"\n\nAnswer:\n">>

(* Faulty variant: every intent is answered by the question tool. *)
ToolFor_always_answer(a) == "tool_answer_question"

(* the if / elif / else on action in main() *)
ToolFor(a) ==
    IF a = "summarize" THEN "tool_summarize"
    ELSE IF a = "extract_hr" THEN "tool_extract_hr_tasks"
    ELSE "tool_answer_question"

(* Faulty variant: every tool builds the question prompt from context and query. *)
ToolPrompt_always_question(tl, ctx, q) == tool_answer_question_prompt(ctx, q)

(* the prompt the chosen tool hands to generate_answer_with_together *)
ToolPrompt(tl, ctx, q) ==
    IF tl = "tool_summarize" THEN tool_summarize_prompt(ctx)
    ELSE IF tl = "tool_extract_hr_tasks" THEN tool_extract_hr_tasks_prompt(ctx)
    ELSE tool_answer_question_prompt(ctx, q)

(* Specification SpecDispatch: two dispatches with the same intent and
   context, each with its own original query. *)
DispContexts == SeqsUpTo({"A", "B", "\n"}, MaxCtx)
DispQueries == SeqsUpTo({"A", "q"}, MaxCtx)

InitDispatch ==
    /\ pc = "ready"
    /\ d_action \in Intents
    /\ d_context \in DispContexts
    /\ d_query \in DispQueries
    /\ d_query2 \in DispQueries
    /\ d_prompt = <<>>
    /\ d_prompt2 = <<>>
    /\ IdleSplit /\ IdlePlan /\ IdleDb /\ IdleCall /\ IdleRace /\ IdleMain

Dispatch1 ==
    /\ pc = "ready"
    /\ d_prompt' = ToolPrompt(ToolFor(d_action), d_context, d_query)
    /\ pc' = "sent1"
    /\ UNCHANGED <<d_action, d_context, d_query, d_query2, d_prompt2>>
    /\ UNCHANGED <<splitVars, planVars, dbVars, callVars, raceVars, mainVars>>

Dispatch2 ==
    /\ pc = "sent1"
    /\ d_prompt2' = ToolPrompt(ToolFor(d_action), d_context, d_query2)
    /\ pc' = "sent2"
    /\ UNCHANGED <<d_action, d_context, d_query, d_query2, d_prompt>>
    /\ UNCHANGED <<splitVars, planVars, dbVars, callVars, raceVars, mainVars>>

NextDispatch == Dispatch1 \/ Dispatch2

SpecDispatch == InitDispatch /\ [][NextDispatch]_vars

TemplateHead(a) ==
    IF a = "summarize" THEN "Summarize the following text:\n\n"
    ELSE "From the following text, extract action items relevant to the HR department:\n\n"

TemplateTail(a) == IF a = "summarize" THEN "\n\nSummary:" ELSE "\n\nItems:"

(* C10: a GeneralQA prompt contains the context and the original query as
   substrings; a Summarize or ExtractHRActions prompt is the intent's fixed
   template around the context only, so the two dispatches, which differ
   only in the original query, send the same prompt. *)
C10_PromptFromIntent ==
    pc = "sent2" =>
        /\ (d_action = "general" =>
                /\ Contains(d_prompt, d_context) /\ Contains(d_prompt, d_query)
                /\ Contains(d_prompt2, d_context) /\ Contains(d_prompt2, d_query2))
        /\ (d_action \in {"summarize", "extract_hr"} =>
                /\ d_prompt = d_prompt2
                /\ d_prompt = <<TemplateHead(d_action)>> \o d_context
                                  \o <<TemplateTail(d_action)>>)

C10_Witness ==
    /\ pc = "sent2"
    /\ d_action = "extract_hr"
    /\ d_context # <<>>
    /\ d_query # d_query2
    /\ ~Contains(d_context, d_query)
    /\ d_prompt = d_prompt2

-----------------------------------------------------------------------------
(* 3.-5. The vector store.  A collection is the sequence of its entries in
   insertion order, each [id, document]; the embedding of a document shows
   only as its distance to the query, dist[document]. *)

(* Faulty variant: the emptiness probe always reports an empty collection. *)
count_always_zero(coll) == 0

(* collection.count() *)
count(coll) == Len(coll)

(* f"pdf_chunk_{i}" for i in range(len(chunks)) *)
chunk_ids(ch) == [i \in 1..Len(ch) |-> <<"pdf_chunk_", i - 1>>]

HasId(coll, id) == \E j \in 1..Len(coll) : coll[j].id = id

(* collection.add(documents, ids) raises ValueError on an empty id list *)
add_raises(ids) == ids = <<>>

(* collection.add(documents, ids): a record whose id is present is ignored *)
RECURSIVE chroma_add(_, _, _)
chroma_add(coll, documents, ids) ==
    IF ids = <<>> THEN coll
    ELSE chroma_add(
            IF HasId(coll, Head(ids)) THEN coll
            ELSE Append(coll, [id |-> Head(ids), document |-> Head(documents)]),
            Tail(documents), Tail(ids))

(* Faulty variant: the chunks are added whatever the collection holds. *)
add_documents_unchecked(coll, ch) == chroma_add(coll, ch, chunk_ids(ch))

(* add_documents_to_collection: the collection after the call *)
add_documents_to_collection(coll, ch) ==
    IF count(coll) = 0 THEN chroma_add(coll, ch, chunk_ids(ch)) ELSE coll

(* add_documents_to_collection raises (collection.add on no chunks) *)
add_documents_raises(coll, ch) == count(coll) = 0 /\ add_raises(chunk_ids(ch))

(* collection.query(query_texts=[query], n_results=n): the possible results,
   one inner list per query text.  The n nearest entries by ascending
   distance; entries at equal distance come in any order. *)
chroma_query(coll, d, n) ==
    LET m == Min(n, Len(coll))
        picks == {f \in [1..m -> 1..Len(coll)] :
                    /\ \A i, j \in 1..m : i # j => f[i] # f[j]
                    /\ \A i, j \in 1..m : i < j => d[coll[f[i]].document] <= d[coll[f[j]].document]
                    /\ \A i \in 1..m : \A o \in 1..Len(coll) :
                          (\A j \in 1..m : f[j] # o) =>
                              d[coll[f[i]].document] <= d[coll[o].document]}
    IN {[ids |-> <<[i \in 1..m |-> coll[f[i]].id]>>,
         documents |-> <<[i \in 1..m |-> coll[f[i]].document]>>,
         distances |-> <<[i \in 1..m |-> d[coll[f[i]].document]]>>] : f \in picks}

(* Faulty variant: the list of per-query lists is returned instead of its first. *)
query_collection_return_outer(r) == r.documents

(* query_collection: return results['documents'][0] *)
query_collection_return(r) == r.documents[1]

Docs == {<<"A">>, <<"B">>}
ChunkLists == SeqsUpTo(Docs, MaxChunks)
(* distances to the query: two values give ties and strict order *)
DistValues == {0, 1}
Distances == [Docs -> DistValues]

(* Specification SpecIndex: sequential populate and query calls on one
   collection, by one process or by later processes on the same path. *)
InitIndex ==
    /\ pc = "new"
    /\ exists = FALSE
    /\ collection = <<>>
    /\ IdleCall
    /\ IdleSplit /\ IdlePlan /\ IdleDisp /\ IdleRace /\ IdleMain

(* init_vector_db: get_or_create_collection *)
IndexOpen ==
    /\ pc = "new"
    /\ exists' = TRUE
    /\ pc' = "ready"
    /\ UNCHANGED <<collection, callVars, splitVars, planVars, dispVars, raceVars, mainVars>>

(* the process ends; the store stays on disk *)
IndexClose ==
    /\ pc \in {"ready", "queried"}
    /\ pc' = "new"
    /\ UNCHANGED <<dbVars, callVars, splitVars, planVars, dispVars, raceVars, mainVars>>

IndexPopulate ==
    /\ pc \in {"ready", "queried"}
    /\ calls < MaxCalls
    /\ \E ch \in ChunkLists :
        /\ chunks' = ch
        /\ collection' = IF add_documents_raises(collection, ch) THEN collection
                         ELSE add_documents_to_collection(collection, ch)
        /\ first_chunks' = IF first_chunks = None /\ collection = <<>> /\ ch # <<>>
                           THEN Some(ch) ELSE first_chunks
    /\ calls' = calls + 1
    /\ pc' = "ready"
    /\ UNCHANGED <<exists, n_results, dist, results, retrieved_chunks>>
    /\ UNCHANGED <<splitVars, planVars, dispVars, raceVars, mainVars>>

IndexQuery ==
    /\ pc \in {"ready", "queried"}
    /\ calls < MaxCalls
    /\ \E k \in 1..MaxK, d \in Distances :
        /\ n_results' = k
        /\ dist' = d
        /\ \E r \in chroma_query(collection, d, k) :
            /\ results' = Some(r)
            /\ retrieved_chunks' = query_collection_return(r)
    /\ calls' = calls + 1
    /\ pc' = "queried"
    /\ UNCHANGED <<dbVars, chunks, first_chunks>>
    /\ UNCHANGED <<splitVars, planVars, dispVars, raceVars, mainVars>>

NextIndex == IndexOpen \/ IndexClose \/ IndexPopulate \/ IndexQuery

SpecIndex == InitIndex /\ [][NextIndex]_vars

(* one entry per chunk, keyed by the chunk's position *)
EntriesOf(ch) == [i \in 1..Len(ch) |-> [id |-> <<"pdf_chunk_", i - 1>>, document |-> ch[i]]]

(* C1: once a populate with a non-empty chunk sequence has run on the empty
   collection, the collection holds exactly the len(chunks) entries of that
   call, whatever populate calls follow. *)
C1_PopulateOnce ==
    first_chunks # None =>
        /\ Len(collection) = Len(first_chunks[1])
        /\ collection = EntriesOf(first_chunks[1])

C1_Witness ==
    /\ first_chunks # None
    /\ chunks # <<>>
    /\ Len(chunks) > Len(first_chunks[1])
    /\ collection = EntriesOf(first_chunks[1])

(* C5: a query with k >= 1 on n entries returns min(k, n) texts, each the
   text of a distinct entry, by ascending distance; none when the collection
   is empty. *)
C5_QueryTopK ==
    pc = "queried" =>
        LET ids == results[1].ids[1] IN
        /\ Len(retrieved_chunks) = Min(n_results, Len(collection))
        /\ Len(ids) = Len(retrieved_chunks)
        /\ \A i \in 1..Len(retrieved_chunks) :
              \E j \in 1..Len(collection) :
                  collection[j].id = ids[i] /\ collection[j].document = retrieved_chunks[i]
        /\ \A i, j \in 1..Len(ids) : i # j => ids[i] # ids[j]
        /\ \A i, j \in 1..Len(retrieved_chunks) :
              i < j => dist[retrieved_chunks[i]] <= dist[retrieved_chunks[j]]
        /\ (collection = <<>> => retrieved_chunks = <<>>)

C5_Witness ==
    /\ pc = "queried"
    /\ Len(collection) = 2
    /\ n_results = 3
    /\ Len(retrieved_chunks) = 2
    /\ dist[retrieved_chunks[1]] < dist[retrieved_chunks[2]]
    /\ collection[1].document = retrieved_chunks[2]

-----------------------------------------------------------------------------
(* Specification SpecRace: two callers of add_documents_to_collection on the
   same empty collection.  collection.count() and collection.add() are two
   calls on the store, so another caller can run between them.  When the
   host serializes populate calls per collection, a caller starts only while
   no other caller is between its count and its add. *)

Callers == {"caller1", "caller2"}

InitRace ==
    /\ pc = "running"
    /\ exists = TRUE
    /\ collection = <<>>
    /\ r_pc = [c \in Callers |-> "idle"]
    /\ r_chunks \in [Callers -> ChunkLists]
    /\ r_saw = [c \in Callers |-> -1]
    /\ r_adds = 0
    /\ serialized \in BOOLEAN
    /\ IdleCall
    /\ IdleSplit /\ IdlePlan /\ IdleDisp /\ IdleMain

(* if collection.count() == 0: ... else: print("Collection already populated.") *)
RaceCount(c) ==
    /\ r_pc[c] = "idle"
    /\ serialized => \A o \in Callers \ {c} : r_pc[o] # "add"
    /\ r_saw' = [r_saw EXCEPT ![c] = count(collection)]
    /\ r_pc' = [r_pc EXCEPT ![c] = IF count(collection) = 0 THEN "add" ELSE "done"]
    /\ UNCHANGED <<pc, dbVars, r_chunks, r_adds, serialized>>
    /\ UNCHANGED <<callVars, splitVars, planVars, dispVars, mainVars>>

(* collection.add(documents=chunks, ids=ids) *)
RaceAdd(c) ==
    /\ r_pc[c] = "add"
    /\ IF add_raises(chunk_ids(r_chunks[c]))
       THEN /\ r_pc' = [r_pc EXCEPT ![c] = "raised"]
            /\ UNCHANGED <<collection, r_adds>>
       ELSE /\ collection' = chroma_add(collection, r_chunks[c], chunk_ids(r_chunks[c]))
            /\ r_adds' = r_adds + 1
            /\ r_pc' = [r_pc EXCEPT ![c] = "done"]
    /\ UNCHANGED <<pc, exists, r_chunks, r_saw, serialized>>
    /\ UNCHANGED <<callVars, splitVars, planVars, dispVars, mainVars>>

NextRace == \E c \in Callers : RaceCount(c) \/ RaceAdd(c)

SpecRace == InitRace /\ [][NextRace]_vars

(* C2: with populate calls serialized per collection, at most one caller
   inserts and the collection holds the entries of one caller's chunks; the
   state in which both callers saw an empty collection and both inserted is
   reachable only without the serialization (C2_Witness). *)
C2_SerializedPopulateOnce ==
    serialized =>
        /\ r_adds <= 1
        /\ ~(\A c \in Callers : r_saw[c] = 0 /\ r_pc[c] = "done")
        /\ (collection # <<>> => \E c \in Callers : collection = EntriesOf(r_chunks[c]))

C2_Witness ==
    /\ ~serialized
    /\ r_adds = 2
    /\ \A c \in Callers : r_saw[c] = 0 /\ r_pc[c] = "done"
    /\ \A c \in Callers : collection # EntriesOf(r_chunks[c])

-----------------------------------------------------------------------------
(* 1. pdf_reader and 6. generate_answer_with_together.                     *)

(* pdf_reader: None when PdfReader or extract_text raises, else the texts of
   the pages that have one, each followed by "\n". *)
pdf_reader(p) ==
    IF ~p.ok THEN None
    ELSE Some(Concat([i \in 1..Len(p.pages) |->
                        IF p.pages[i] # <<>> THEN p.pages[i] \o <<"\n">> ELSE <<>>]))

(* Faulty variant: only a failed extraction stops the run, an empty text does not. *)
not_text_none_only(t) == t = None

(* "not text": None and "" are falsy *)
not_text(t) == t = None \/ t[1] = <<>>

(* the return value of generate_answer_with_together for a response *)
generate_answer_with_together(resp) ==
    IF resp.status_code = 200 THEN Some(strip(resp.text)) ELSE None

(* "\n".join(retrieved_chunks) *)
RECURSIVE join_newline(_)
join_newline(ss) ==
    IF ss = <<>> THEN <<>>
    ELSE IF Len(ss) = 1 THEN ss[1]
    ELSE ss[1] \o <<"\n">> \o join_newline(Tail(ss))

-----------------------------------------------------------------------------
(* Specification SpecMain: one run of main(), on the store earlier runs left. *)

PageTexts == {<<>>, <<"A">>, <<" ">>}
Pdfs == {[ok |-> FALSE, pages |-> <<>>]}
            \cup {[ok |-> TRUE, pages |-> ps] : ps \in SeqsUpTo(PageTexts, MaxPages)}

(* what earlier runs can have left on disk: no collection, or a collection
   holding the entries of one populate (none if that run stopped in add) *)
Stores == {<<FALSE, <<>>>>} \cup {<<TRUE, EntriesOf(ch)>> : ch \in ChunkLists}

MainQueries == {
    <<>>,
    <<"x">>,
    <<"h", "r", " ", "a", "c", "t", "i", "o", "n">>,
    <<"H", "R", " ", "A", "c", "t", "i", "o", "n">>,
    <<"S", "u", "m", "m", "a", "r", "i", "z", "e", " ", "H", "R", " ", "a", "c", "t", "i", "o", "n">> }

(* requests.post: a response with a status and a completion text, or raises *)
Responses == {
    [raised |-> FALSE, status_code |-> 200, text |-> <<" ", "Z">>],
    [raised |-> FALSE, status_code |-> 200, text |-> <<" ">>],
    [raised |-> FALSE, status_code |-> 500, text |-> <<>>],
    [raised |-> TRUE, status_code |-> 0, text |-> <<>>] }

DocSet(coll) == {coll[i].document : i \in 1..Len(coll)}

InitMain ==
    /\ pc = "start"
    /\ pdf \in Pdfs
    /\ \E st \in Stores : exists = st[1] /\ collection = st[2] /\ db0 = st
    /\ text = None /\ query = <<>> /\ context = <<>>
    /\ action = "none" /\ tool = "none" /\ prompt = <<>>
    /\ response = [raised |-> FALSE, status_code |-> 0, text |-> <<>>]
    /\ answer = None /\ output = <<>> /\ trace = <<>> /\ gen_calls = 0
    /\ IdleCall
    /\ IdleSplit /\ IdlePlan /\ IdleDisp /\ IdleRace

(* text = pdf_reader(PDF_PATH); if not text: print(...); return *)
MainRead ==
    /\ pc = "start"
    /\ text' = pdf_reader(pdf)
    /\ IF not_text(text')
       THEN pc' = "exit" /\ output' = <<"No text extracted. Exiting.">>
       ELSE pc' = "split" /\ output' = output
    /\ UNCHANGED <<pdf, query, context, action, tool, prompt, response, answer, trace,
                   db0, gen_calls>>
    /\ UNCHANGED <<dbVars, callVars, splitVars, planVars, dispVars, raceVars>>

(* chunks = textsplitter(text) *)
MainSplit ==
    /\ pc = "split"
    /\ chunks' = textsplitter(text[1])
    /\ trace' = Append(trace, "split")
    /\ pc' = "init_db"
    /\ UNCHANGED <<pdf, text, query, context, action, tool, prompt, response, answer,
                   output, db0, gen_calls>>
    /\ UNCHANGED <<dbVars, first_chunks, calls, n_results, dist, results, retrieved_chunks>>
    /\ UNCHANGED <<splitVars, planVars, dispVars, raceVars>>

(* collection = init_vector_db() *)
MainInitDb ==
    /\ pc = "init_db"
    /\ exists' = TRUE
    /\ trace' = Append(trace, "init_db")
    /\ pc' = "populate"
    /\ UNCHANGED <<pdf, text, query, context, action, tool, prompt, response, answer,
                   output, db0, gen_calls>>
    /\ UNCHANGED <<collection, callVars, splitVars, planVars, dispVars, raceVars>>

(* add_documents_to_collection(collection, chunks) *)
MainPopulate ==
    /\ pc = "populate"
    /\ trace' = Append(trace, "populate")
    /\ IF add_documents_raises(collection, chunks)
       THEN pc' = "fault" /\ collection' = collection
       ELSE pc' = "input" /\ collection' = add_documents_to_collection(collection, chunks)
    /\ UNCHANGED <<pdf, text, query, context, action, tool, prompt, response, answer,
                   output, db0, gen_calls>>
    /\ UNCHANGED <<exists, callVars, splitVars, planVars, dispVars, raceVars>>

(* query = input("\nEnter your question: ") *)
MainInput ==
    /\ pc = "input"
    /\ query' \in MainQueries
    /\ trace' = Append(trace, "input")
    /\ pc' = "query"
    /\ UNCHANGED <<pdf, text, context, action, tool, prompt, response, answer,
                   output, db0, gen_calls>>
    /\ UNCHANGED <<dbVars, callVars, splitVars, planVars, dispVars, raceVars>>

(* retrieved_chunks = query_collection(collection, query, n_results=2) *)
MainQuery ==
    /\ pc = "query"
    /\ n_results' = main_n_results
    /\ \E d \in [DocSet(collection) -> DistValues] :
        /\ dist' = d
        /\ \E r \in chroma_query(collection, d, main_n_results) :
            /\ results' = Some(r)
            /\ retrieved_chunks' = query_collection_return(r)
    /\ trace' = Append(trace, "query")
    /\ pc' = "plan"
    /\ UNCHANGED <<pdf, text, query, context, action, tool, prompt, response, answer,
                   output, db0, gen_calls>>
    /\ UNCHANGED <<dbVars, chunks, first_chunks, calls, splitVars, planVars, dispVars, raceVars>>

(* context = "\n".join(retrieved_chunks); action = simple_planner(query) *)
MainPlan ==
    /\ pc = "plan"
    /\ context' = join_newline(retrieved_chunks)
    /\ action' = simple_planner(query)
    /\ trace' = Append(trace, "classify")
    /\ pc' = "dispatch"
    /\ UNCHANGED <<pdf, text, query, tool, prompt, response, answer, output, db0, gen_calls>>
    /\ UNCHANGED <<dbVars, callVars, splitVars, planVars, dispVars, raceVars>>

(* answer = tool_...(context[, query]): the tool builds its prompt and calls
   generate_answer_with_together, whose requests.post returns or raises *)
MainDispatch ==
    /\ pc = "dispatch"
    /\ tool' = ToolFor(action)
    /\ prompt' = ToolPrompt(ToolFor(action), context, query)
    /\ gen_calls' = gen_calls + 1
    /\ trace' = Append(trace, "dispatch")
    /\ \E resp \in Responses :
        /\ response' = resp
        /\ IF resp.raised
           THEN pc' = "fault" /\ answer' = answer
           ELSE pc' = "emit" /\ answer' = generate_answer_with_together(resp)
    /\ UNCHANGED <<pdf, text, query, context, action, output, db0>>
    /\ UNCHANGED <<dbVars, callVars, splitVars, planVars, dispVars, raceVars>>

(* print(answer if answer else "Failed to generate answer.") *)
MainEmit ==
    /\ pc = "emit"
    /\ output' = IF answer # None /\ answer[1] # <<>> THEN answer[1]
                 ELSE <<"Failed to generate answer.">>
    /\ trace' = Append(trace, "emit")
    /\ pc' = "done"
    /\ UNCHANGED <<pdf, text, query, context, action, tool, prompt, response, answer,
                   db0, gen_calls>>
    /\ UNCHANGED <<dbVars, callVars, splitVars, planVars, dispVars, raceVars>>

NextMain ==
    \/ MainRead \/ MainSplit \/ MainInitDb \/ MainPopulate \/ MainInput
    \/ MainQuery \/ MainPlan \/ MainDispatch \/ MainEmit

SpecMain == InitMain /\ [][NextMain]_vars

StageOrder ==
    <<"split", "init_db", "populate", "input", "query", "classify", "dispatch", "emit">>

IsPrefix(s, t) == Len(s) <= Len(t) /\ s = SubSeq(t, 1, Len(s))

Happened(stage) == \E i \in 1..Len(trace) : trace[i] = stage

(* the strategy that belongs to the intent of a query *)
StrategyOfQuery(q) ==
    IF ContainsIgnoringCase(q, kw_summarize) THEN "tool_summarize"
    ELSE IF ContainsIgnoringCase(q, kw_hr) /\ ContainsIgnoringCase(q, kw_action)
         THEN "tool_extract_hr_tasks"
    ELSE "tool_answer_question"

(* C4 as stated: whenever the generation collaborator fails (non-success
   status, or the network call raising), dispatch returns no Answer without
   raising and the run ends by printing "Failed to generate answer." *)
C4_GenerationFailureReported ==
    (gen_calls = 1 /\ (response.raised \/ response.status_code # 200)) =>
        /\ pc # "fault"
        /\ answer = None
        /\ (pc = "done" => output = <<"Failed to generate answer.">>)

(* C8: the stages of a run happen in the one fixed order, the query is made
   with k = 2 and only after populate, the generation collaborator is called
   once, after retrieval and classification, with the strategy of
   classify(query); a run that finishes has gone through every stage. *)
C8_StageOrder ==
    /\ IsPrefix(trace, StageOrder)
    /\ (Happened("query") =>
            /\ n_results = 2
            /\ Len(retrieved_chunks) = Min(2, Len(collection)))
    /\ gen_calls = (IF Happened("dispatch") THEN 1 ELSE 0)
    /\ (Happened("dispatch") =>
            /\ Happened("query") /\ Happened("classify")
            /\ tool = StrategyOfQuery(query)
            /\ prompt = ToolPrompt(StrategyOfQuery(query), join_newline(retrieved_chunks), query))
    /\ (pc = "done" => trace = StageOrder /\ gen_calls = 1)

C8_Witness ==
    /\ pc = "done"
    /\ trace = StageOrder
    /\ tool = "tool_extract_hr_tasks"
    /\ Len(retrieved_chunks) = 2
    /\ gen_calls = 1

(* C9: when extraction yields no text (None or the empty string) the run
   stops at once: nothing is chunked, the store is as it was before the run
   (no collection created, nothing inserted), no query and no generation
   call is made. *)
C9_EmptyExtractionAborts ==
    (pc # "start" /\ (text = None \/ text = Some(<<>>))) =>
        /\ pc = "exit"
        /\ trace = <<>>
        /\ chunks = <<>>
        /\ <<exists, collection>> = db0
        /\ results = None
        /\ gen_calls = 0
        /\ output = <<"No text extracted. Exiting.">>

C9_Witness ==
    /\ pc = "exit"
    /\ text = Some(<<>>)
    /\ Len(pdf.pages) = 2
    /\ ~exists

====
